---- MODULE Spec2Model ----
(***************************************************************************)
(* SLR(1) parser of src/parser.py: the fixed grammar, the FIRST/FOLLOW     *)
(* fixed points, the LR(0) automaton, the ACTION/GOTO table and the        *)
(* shift-reduce driver SLRParser.parse.                                    *)
(*                                                                         *)
(* Rule indices, state indices and dot positions are 0-based as in the     *)
(* Python code; TLA+ sequences are 1-based, so rule r is rules[r + 1] and  *)
(* automaton state i is states[i + 1].  The empty string "" is epsilon.    *)
(***************************************************************************)
EXTENDS Integers, Sequences, FiniteSets, TLC

----------------------------------------------------------------------------
(* Grammar.__init__ *)

Rule(l, r) == [lhs |-> l, rhs |-> r]

rules ==
  << Rule("Program'", <<"Program">>),
     Rule("Program", <<"DeclList">>),
     Rule("DeclList", <<"Decl", "DeclList">>),
     Rule("DeclList", <<>>),
     Rule("Decl", <<"VarDecl">>),
     Rule("Decl", <<"FuncDecl">>),
     Rule("VarDecl", <<"type", "id", ";">>),
     Rule("VarDecl", <<"type", "id", "=", "Expr", ";">>),
     Rule("FuncDecl", <<"type", "id", "(", "ParamList", ")", "Block">>),
     Rule("ParamList", <<"Param", "ParamRest">>),
     Rule("ParamList", <<>>),
     Rule("ParamRest", <<",", "Param", "ParamRest">>),
     Rule("ParamRest", <<>>),
     Rule("Param", <<"type", "id">>),
     Rule("Block", <<"{", "StmtList", "}">>),
     Rule("StmtList", <<"Stmt", "StmtList">>),
     Rule("StmtList", <<>>),
     Rule("Stmt", <<"MatchedStmt">>),
     Rule("Stmt", <<"UnmatchedStmt">>),
     Rule("MatchedStmt", <<"if", "(", "Expr", ")", "MatchedStmt", "else", "MatchedStmt">>),
     Rule("MatchedStmt", <<"while", "(", "Expr", ")", "MatchedStmt">>),
     Rule("MatchedStmt", <<"for", "(", "Expr", ";", "Expr", ";", "Expr", ")", "MatchedStmt">>),
     Rule("MatchedStmt", <<"return", "Expr", ";">>),
     Rule("MatchedStmt", <<"VarDecl">>),
     Rule("MatchedStmt", <<"ExprStmt">>),
     Rule("MatchedStmt", <<"Block">>),
     Rule("UnmatchedStmt", <<"if", "(", "Expr", ")", "Stmt">>),
     Rule("UnmatchedStmt", <<"if", "(", "Expr", ")", "MatchedStmt", "else", "UnmatchedStmt">>),
     Rule("UnmatchedStmt", <<"while", "(", "Expr", ")", "UnmatchedStmt">>),
     Rule("UnmatchedStmt", <<"for", "(", "Expr", ";", "Expr", ";", "Expr", ")", "UnmatchedStmt">>),
     Rule("ExprStmt", <<"id", "=", "Expr", ";">>),
     Rule("Expr", <<"EqlExpr">>),
     Rule("EqlExpr", <<"EqlExpr", "==", "AddExpr">>),
     Rule("EqlExpr", <<"AddExpr">>),
     Rule("AddExpr", <<"AddExpr", "+", "MulExpr">>),
     Rule("AddExpr", <<"MulExpr">>),
     Rule("MulExpr", <<"MulExpr", "*", "UnaryExpr">>),
     Rule("MulExpr", <<"UnaryExpr">>),
     Rule("UnaryExpr", <<"-", "UnaryExpr">>),
     Rule("UnaryExpr", <<"Primary">>),
     Rule("Primary", <<"id", "(", "ArgList", ")">>),
     Rule("Primary", <<"id">>),
     Rule("Primary", <<"num">>),
     Rule("Primary", <<"(", "Expr", ")">>),
     Rule("ArgList", <<"Expr", "ArgRest">>),
     Rule("ArgList", <<>>),
     Rule("ArgRest", <<",", "Expr", "ArgRest">>),
     Rule("ArgRest", <<>>) >>

start_symbol == "Program'"

terminals ==
  {"type", "id", ";", "=", "(", ")", ",", "{", "}", "if", "else",
   "while", "for", "return", "==", "+", "*", "-", "num", "$"}

nonterminals == {rules[i].lhs : i \in DOMAIN rules}

\* The Grammar object held by an SLRParser.
Grammar ==
  [rules |-> rules, start_symbol |-> start_symbol,
   terminals |-> terminals, nonterminals |-> nonterminals]

\* Grammar.get_rule, with the code's 0-based index.
get_rule(index) == rules[index + 1]

\* Number of productions; rule indices are 0 .. NumRules - 1.
NumRules == Len(rules)

----------------------------------------------------------------------------
(* SLRParser.build_first_sets / get_first_of_sequence / build_follow_sets *)

\* The dict of FIRST sets before the fixed-point loop.
InitFirst ==
  [s \in terminals \cup nonterminals \cup {""} |->
     IF s \in terminals THEN {s} ELSE IF s = "" THEN {""} ELSE {}]

\* Loop of get_first_of_sequence from position i on: the pair
\* <<terminals collected, all_have_epsilon>>.
RECURSIVE FirstSeqLoop(_, _, _)
FirstSeqLoop(fs, sequence, i) ==
  IF i > Len(sequence) THEN <<{}, TRUE>>
  ELSE LET symbol == sequence[i] IN
       IF symbol \in terminals THEN <<{symbol}, FALSE>>
       ELSE IF symbol \in DOMAIN fs THEN
              IF "" \notin fs[symbol] THEN <<fs[symbol] \ {""}, FALSE>>
              ELSE LET rest == FirstSeqLoop(fs, sequence, i + 1)
                   IN  <<(fs[symbol] \ {""}) \cup rest[1], rest[2]>>
       ELSE <<{}, FALSE>>

get_first_of_sequence(fs, sequence) ==
  IF sequence = <<>> THEN {""}
  ELSE LET r == FirstSeqLoop(fs, sequence, 1)
       IN  IF r[2] THEN r[1] \cup {""} ELSE r[1]

\* Body of the for loop of build_first_sets for one production.
FirstRuleStep(fs, r) ==
  LET lhs == rules[r].lhs
      rhs == rules[r].rhs
  IN  IF rhs = <<>>
        THEN [fs EXCEPT ![lhs] = @ \cup {""}]
        ELSE [fs EXCEPT ![lhs] = @ \cup get_first_of_sequence(fs, rhs)]

\* One pass of the while loop over productions lo .. hi in order, each
\* seeing the sets as updated by the productions before it.  The range is
\* halved, and the first half compared with its input before the second
\* half starts, only to keep TLC's evaluation shallow (it evaluates
\* operator arguments lazily); the order of the steps is the loop's.  The
\* other loops over productions and states below are written the same way.
RECURSIVE FirstPass(_, _, _)
FirstPass(fs, lo, hi) ==
  IF lo > hi THEN fs
  ELSE IF lo = hi THEN FirstRuleStep(fs, lo)
  ELSE LET half == FirstPass(fs, lo, (lo + hi) \div 2)
       IN  IF half = fs THEN FirstPass(fs, ((lo + hi) \div 2) + 1, hi)
           ELSE FirstPass(half, ((lo + hi) \div 2) + 1, hi)

\* while changed: repeat passes until a pass grows no set.
RECURSIVE FirstFix(_)
FirstFix(fs) ==
  LET next == FirstPass(fs, 1, NumRules)
  IN  IF next = fs THEN fs ELSE FirstFix(next)

build_first_sets == FirstFix(InitFirst)

\* The dict of FOLLOW sets before the fixed-point loop.
InitFollow ==
  [s \in nonterminals |-> IF s = "Program'" THEN {"$"} ELSE {}]

\* Faulty variant of FollowSymStep: a nonterminal at the end of a right-hand side
\* does not receive FOLLOW(lhs).
FollowSymStepNoEnd(fs, fo, r, i) ==
  LET lhs == rules[r].lhs
      rhs == rules[r].rhs
      symbol == rhs[i]
      beta == SubSeq(rhs, i + 1, Len(rhs))
  IN  IF symbol \notin nonterminals THEN fo
      ELSE IF beta # <<>>
        THEN LET first_beta == get_first_of_sequence(fs, beta)
                 fo1 == [fo EXCEPT ![symbol] = @ \cup (first_beta \ {""})]
             IN  IF "" \in first_beta
                   THEN [fo1 EXCEPT ![symbol] = @ \cup fo1[lhs]]
                   ELSE fo1
        ELSE fo

\* Faulty variant of FollowSymStep: FOLLOW(lhs) is not added when the
\* symbols after the nonterminal can derive the empty string.
FollowSymStepNoNullable(fs, fo, r, i) ==
  LET lhs == rules[r].lhs
      rhs == rules[r].rhs
      symbol == rhs[i]
      beta == SubSeq(rhs, i + 1, Len(rhs))
  IN  IF symbol \notin nonterminals THEN fo
      ELSE IF beta # <<>>
        THEN [fo EXCEPT ![symbol] = @ \cup (get_first_of_sequence(fs, beta) \ {""})]
        ELSE [fo EXCEPT ![symbol] = @ \cup fo[lhs]]

\* Body of the inner loop of build_follow_sets for position i of rule r.
FollowSymStep(fs, fo, r, i) ==
  LET lhs == rules[r].lhs
      rhs == rules[r].rhs
      symbol == rhs[i]
      beta == SubSeq(rhs, i + 1, Len(rhs))
  IN  IF symbol \notin nonterminals THEN fo
      ELSE IF beta # <<>>
        THEN LET first_beta == get_first_of_sequence(fs, beta)
                 fo1 == [fo EXCEPT ![symbol] = @ \cup (first_beta \ {""})]
             IN  IF "" \in first_beta
                   THEN [fo1 EXCEPT ![symbol] = @ \cup fo1[lhs]]
                   ELSE fo1
        ELSE [fo EXCEPT ![symbol] = @ \cup fo[lhs]]

RECURSIVE FollowRuleStep(_, _, _, _)
FollowRuleStep(fs, fo, r, i) ==
  IF i > Len(rules[r].rhs) THEN fo
  ELSE FollowRuleStep(fs, FollowSymStep(fs, fo, r, i), r, i + 1)

\* One pass of the while loop over productions lo .. hi in order.
RECURSIVE FollowPass(_, _, _, _)
FollowPass(fs, fo, lo, hi) ==
  IF lo > hi THEN fo
  ELSE IF lo = hi THEN FollowRuleStep(fs, fo, lo, 1)
  ELSE LET half == FollowPass(fs, fo, lo, (lo + hi) \div 2)
       IN  IF half = fo THEN FollowPass(fs, fo, ((lo + hi) \div 2) + 1, hi)
           ELSE FollowPass(fs, half, ((lo + hi) \div 2) + 1, hi)

RECURSIVE FollowFix(_, _)
FollowFix(fs, fo) ==
  LET next == FollowPass(fs, fo, 1, NumRules)
  IN  IF next = fo THEN fo ELSE FollowFix(fs, next)

\* Faulty variant of build_follow_sets: every terminal follows every
\* nonterminal.
FollowEverything == [symbol \in nonterminals |-> terminals]

build_follow_sets == FollowFix(build_first_sets, InitFollow)

----------------------------------------------------------------------------
(* Iteration order of Python's unordered collections.                      *)
(*                                                                         *)
(* build_lr0_items iterates `symbols`, a set of str, and                   *)
(* build_parsing_table iterates a frozenset of items and a FOLLOW set.     *)
(* The language fixes no order for a set; str hashes are salted per        *)
(* process.  An order is therefore an input of a build: order k visits a   *)
(* set of symbols in the order of SymbolList rotated by 17 * (k - 1)       *)
(* and visits an item set ascending for odd k, descending for even k.      *)

\* Number of iteration orders explored.
NumOrders == 2

Orders == 1 .. NumOrders

SymbolList ==
  << "Program'", "Program", "DeclList", "Decl", "VarDecl", "FuncDecl",
     "ParamList", "ParamRest", "Param", "Block", "StmtList", "Stmt",
     "MatchedStmt", "UnmatchedStmt", "ExprStmt", "Expr", "EqlExpr",
     "AddExpr", "MulExpr", "UnaryExpr", "Primary", "ArgList", "ArgRest",
     "type", "id", ";", "=", "(", ")", ",", "{", "}", "if", "else",
     "while", "for", "return", "==", "+", "*", "-", "num", "$" >>

SymbolOrder(k) ==
  LET n == Len(SymbolList)
  IN  [j \in 1 .. n |-> SymbolList[((j - 1 + 17 * (k - 1)) % n) + 1]]

\* `for symbol in symbols` under order k.
IterSymbols(symbols, k) ==
  SelectSeq(SymbolOrder(k), LAMBDA s : s \in symbols)

ItemLess(a, b) == a[1] < b[1] \/ (a[1] = b[1] /\ a[2] < b[2])

RECURSIVE SortItems(_)
SortItems(items) ==
  IF items = {} THEN <<>>
  ELSE LET m == CHOOSE a \in items : \A b \in items : a = b \/ ItemLess(a, b)
       IN  <<m>> \o SortItems(items \ {m})

Reverse(seq) == [j \in 1 .. Len(seq) |-> seq[Len(seq) + 1 - j]]

\* `for item in state` under order k.
IterItems(state, k) ==
  IF k % 2 = 1 THEN SortItems(state) ELSE Reverse(SortItems(state))

----------------------------------------------------------------------------
(* SLRParser.build_lr0_items *)

\* One sweep of closure's while loop: the items added for the items of
\* `result`.
ClosureAdd(result) ==
  {<<i - 1, 0>> : i \in
     {j \in DOMAIN rules :
        \E item \in result :
          LET rhs == rules[item[1] + 1].rhs
          IN  /\ item[2] < Len(rhs)
              /\ rhs[item[2] + 1] \in nonterminals
              /\ rules[j].lhs = rhs[item[2] + 1]}}

\* Faulty variant of closure: one pass over the items instead of a fixed point.
closureOnce(items) == items \cup ClosureAdd(items)

RECURSIVE closure(_)
closure(items) ==
  LET result == items \cup ClosureAdd(items)
  IN  IF result = items THEN items ELSE closure(result)

goto(items, symbol) ==
  LET new_items ==
        {<<item[1], item[2] + 1>> : item \in
           {it \in items :
              LET rhs == rules[it[1] + 1].rhs
              IN  it[2] < Len(rhs) /\ rhs[it[2] + 1] = symbol}}
  IN  IF new_items # {} THEN closure(new_items) ELSE {}

initial_state == closure({<<0, 0>>})

\* The locals of build_lr0_items before the while loop.  state_map is the
\* inverse of `states`: state_map[s] = i iff states[i + 1] = s.
InitLr0 ==
  [states |-> <<initial_state>>, transitions |-> <<>>, queue |-> <<initial_state>>]

state_map(states, s) == (CHOOSE i \in DOMAIN states : states[i] = s) - 1

\* The symbols that appear after a dot in `state`.
SymbolsAfterDot(state) ==
  {rules[item[1] + 1].rhs[item[2] + 1] :
     item \in {it \in state : it[2] < Len(rules[it[1] + 1].rhs)}}

\* Body of `for symbol in symbols` for the popped state number state_idx.
Lr0SymbolStep(a, state, state_idx, symbol) ==
  LET new_state == goto(state, symbol)
  IN  IF new_state = {} THEN a
      ELSE LET known == \E i \in DOMAIN a.states : a.states[i] = new_state
               states1 == IF known THEN a.states ELSE Append(a.states, new_state)
               queue1 == IF known THEN a.queue ELSE Append(a.queue, new_state)
           IN  [states |-> states1,
                transitions |->
                  (<<state_idx, symbol>> :> state_map(states1, new_state))
                    @@ a.transitions,
                queue |-> queue1]

RECURSIVE Lr0Symbols(_, _, _, _, _)
Lr0Symbols(a, state, state_idx, syms, j) ==
  IF j > Len(syms) THEN a
  ELSE Lr0Symbols(Lr0SymbolStep(a, state, state_idx, syms[j]),
                  state, state_idx, syms, j + 1)

\* One iteration of `while queue`: pop the head and expand it under order k.
Lr0Step(a, k) ==
  LET state == Head(a.queue)
      popped == [a EXCEPT !.queue = Tail(a.queue)]
  IN  Lr0Symbols(popped, state, state_map(a.states, state),
                 IterSymbols(SymbolsAfterDot(state), k), 1)

\* At most n iterations of `while queue` (n >= 1), stopping when the queue
\* is empty.
RECURSIVE Lr0Iterate(_, _, _)
Lr0Iterate(a, k, n) ==
  IF a.queue = <<>> THEN a
  ELSE IF n = 1 THEN Lr0Step(a, k)
  ELSE LET half == Lr0Iterate(a, k, n \div 2)
       IN  IF half.queue = <<>> THEN half
           ELSE Lr0Iterate(half, k, n - (n \div 2))

\* `while queue`: every state is appended to the queue once, and there are
\* at most as many states as sets of items reachable, so the loop is run in
\* rounds of Len(states) + 1 iterations until the queue is empty.
RECURSIVE Lr0Loop(_, _)
Lr0Loop(a, k) ==
  IF a.queue = <<>> THEN a
  ELSE LET round == Lr0Iterate(a, k, Len(a.states) + 1)
       IN  IF round.queue = <<>> THEN round ELSE Lr0Loop(round, k)

build_lr0_items(k) == Lr0Loop(InitLr0, k)

----------------------------------------------------------------------------
(* SLRParser.build_parsing_table *)

\* The table and the conflict diagnostics printed so far.
InitTable == [table |-> <<>>, conflicts |-> {}]

Put(table, key, action) == (key :> action) @@ table

\* Faulty variant of ReduceTerminals: no Reduce is entered on the end
\* marker.
RECURSIVE ReduceTerminalsNoEnd(_, _, _, _, _)
ReduceTerminalsNoEnd(t, i, rule_idx, terms, j) ==
  IF j > Len(terms) THEN t
  ELSE LET key == <<i, terms[j]>>
           t1 == IF key \in DOMAIN t.table \/ terms[j] = "$" THEN t
                 ELSE [t EXCEPT !.table = Put(@, key, <<"reduce", rule_idx>>)]
       IN  ReduceTerminalsNoEnd(t1, i, rule_idx, terms, j + 1)

RECURSIVE ReduceTerminals(_, _, _, _, _)
ReduceTerminals(t, i, rule_idx, terms, j) ==
  IF j > Len(terms) THEN t
  ELSE LET key == <<i, terms[j]>>
           t1 == IF key \in DOMAIN t.table
                   THEN IF t.table[key] # <<"reduce", rule_idx>>
                          THEN [t EXCEPT !.conflicts = @ \cup {<<"Reduce/Reduce", i, terms[j]>>}]
                          ELSE t
                   ELSE [t EXCEPT !.table = Put(@, key, <<"reduce", rule_idx>>)]
       IN  ReduceTerminals(t1, i, rule_idx, terms, j + 1)

\* Body of `for item in state` for state number i.
TableItemStep(t, transitions, fo, i, item, k) ==
  LET rule_idx == item[1]
      dot_pos == item[2]
      lhs == rules[rule_idx + 1].lhs
      rhs == rules[rule_idx + 1].rhs
  IN  IF dot_pos < Len(rhs)
        THEN LET symbol == rhs[dot_pos + 1]
                 key == <<i, symbol>>
             IN  IF symbol \in terminals /\ key \in DOMAIN transitions
                   THEN LET next_state == transitions[key]
                            t1 == IF key \in DOMAIN t.table
                                       /\ t.table[key] # <<"shift", next_state>>
                                    THEN [t EXCEPT !.conflicts = @ \cup {<<"Shift/Reduce", i, symbol>>}]
                                    ELSE t
                        IN  [t1 EXCEPT !.table = Put(@, key, <<"shift", next_state>>)]
                   ELSE t
        ELSE IF rule_idx = 0
               THEN [t EXCEPT !.table = Put(@, <<i, "$">>, <<"accept">>)]
               ELSE ReduceTerminals(t, i, rule_idx, IterSymbols(fo[lhs], k), 1)

RECURSIVE TableItems(_, _, _, _, _, _, _)
TableItems(t, transitions, fo, i, items, j, k) ==
  IF j > Len(items) THEN t
  ELSE TableItems(TableItemStep(t, transitions, fo, i, items[j], k),
                  transitions, fo, i, items, j + 1, k)

\* Body of `for i, state in enumerate(states)`.
TableStateStep(t, lr0, fo, i, k) ==
  TableItems(t, lr0.transitions, fo, i, IterItems(lr0.states[i + 1], k), 1, k)

\* `for i, state in enumerate(states)` over states lo .. hi in order.
RECURSIVE TableStates(_, _, _, _, _, _)
TableStates(t, lr0, fo, lo, hi, k) ==
  IF lo > hi THEN t
  ELSE IF lo = hi THEN TableStateStep(t, lr0, fo, lo, k)
  ELSE LET half == TableStates(t, lr0, fo, lo, (lo + hi) \div 2, k)
       IN  IF half = t THEN TableStates(t, lr0, fo, ((lo + hi) \div 2) + 1, hi, k)
           ELSE TableStates(half, lr0, fo, ((lo + hi) \div 2) + 1, hi, k)

\* Faulty variant of AddGotos: the final loop is missing.
AddGotosNone(table, transitions) == table

\* The final loop: GOTO entries for the nonterminal transitions.
AddGotos(table, transitions) ==
  [key \in DOMAIN table \cup {x \in DOMAIN transitions : x[2] \in nonterminals} |->
     IF key \in DOMAIN transitions /\ key[2] \in nonterminals
       THEN <<"goto", transitions[key]>>
       ELSE table[key]]

build_parsing_table_from(lr0, fo, k) ==
  LET t == TableStates(InitTable, lr0, fo, 0, Len(lr0.states) - 1, k)
  IN  [t EXCEPT !.table = AddGotos(@, lr0.transitions)]

\* The automaton, the table and the diagnostics of a parser built under
\* each iteration order.
Built ==
  [k \in Orders |->
     LET lr0 == build_lr0_items(k)
         t == build_parsing_table_from(lr0, build_follow_sets, k)
     IN  [states |-> lr0.states, transitions |-> lr0.transitions,
          parsing_table |-> t.table, conflicts |-> t.conflicts]]

----------------------------------------------------------------------------
(* Token strings.                                                          *)
(*                                                                         *)
(* TLC has no operations on the characters of a string, so the token       *)
(* strings of the model are the finite vocabulary RawTokens and the str    *)
(* methods normalize_token calls are tabulated over it.                    *)

TypeWords == {"int", "float", "bool", "void"}

RawTokens ==
  {"$", "type", "id", "id:x", "id:main", "identifier",
   "num", "num:0", "num:5", "7", "number",
   ";", "=", "(", ")", ",", "{", "}", "if", "else", "while", "for",
   "return", "==", "+", "*", "-",
   "if:kw", "x:1", "$:x", "foo", "Program", "Decl"} \cup TypeWords

\* token.startswith(prefix), for the two prefixes normalize_token tests.
startswith(token, prefix) ==
  CASE prefix = "id" -> token \in {"id", "id:x", "id:main", "identifier"}
    [] prefix = "num" -> token \in {"num", "num:0", "num:5", "number"}

\* token.isdigit()
isdigit(token) == token \in {"7"}

\* ":" in token
HasColon(token) ==
  token \in {"id:x", "id:main", "num:0", "num:5", "if:kw", "x:1", "$:x"}

\* token.split(":")[0]
SplitHead(token) ==
  CASE token \in {"id:x", "id:main"} -> "id"
    [] token \in {"num:0", "num:5"} -> "num"
    [] token = "if:kw" -> "if"
    [] token = "x:1" -> "x"
    [] token = "$:x" -> "$"
    [] OTHER -> token

----------------------------------------------------------------------------
(* SLRParser.normalize_token and SLRParser.parse *)

normalize_token(token) ==
  IF token = "$" THEN "$"
  ELSE IF token \in TypeWords THEN "type"
  ELSE IF startswith(token, "id") \/ token = "identifier" THEN "id"
  ELSE IF startswith(token, "num") \/ isdigit(token) \/ token = "number" THEN "num"
  ELSE IF token \in terminals THEN token
  ELSE IF HasColon(token) THEN SplitHead(token)
  ELSE token

\* ParseTree(symbol, children)
ParseTree(symbol, children) == [symbol |-> symbol, children |-> children]

\* ErrorReport(position, message); a message is the tuple of its fixed text
\* and the values formatted into it.
ErrorReport(position, message) == [position |-> position, message |-> message]

\* What parse returns: (True, tree), (False, report), or no value at all
\* when the interpreter raises (an IndexError on an empty stack).
Success(tree) == [ok |-> TRUE, tree |-> tree]
Failure(report) == [ok |-> FALSE, error |-> report]
Raised == [ok |-> "raised"]
NoResult == [ok |-> "none"]

\* Faulty variant of StartParse: the state stack starts with two states.
StartParseDeep(tokens) ==
  [pc |-> "loop",
   tokens |-> tokens,
   normalized_tokens |->
     [j \in 1 .. Len(tokens) |-> normalize_token(tokens[j])] \o <<"$">>,
   stack |-> <<0, 0>>,
   symbol_stack |-> <<>>,
   index |-> 0,
   result |-> NoResult]

\* The locals of a parse call before the while loop.
StartParse(tokens) ==
  [pc |-> "loop",
   tokens |-> tokens,
   normalized_tokens |->
     [j \in 1 .. Len(tokens) |-> normalize_token(tokens[j])] \o <<"$">>,
   stack |-> <<0>>,
   symbol_stack |-> <<>>,
   index |-> 0,
   result |-> NoResult]

Return(f, value) == [f EXCEPT !.pc = "done", !.result = value]

\* tokens[index] if index < len(tokens) else '$'
OriginalToken(f) ==
  IF f.index < Len(f.tokens) THEN f.tokens[f.index + 1] ELSE "$"

\* The terminals t with an entry (state, t) in the table.
Expected(table, g, state) ==
  {key[2] : key \in {k \in DOMAIN table : k[1] = state /\ k[2] \in g.terminals}}

\* Faulty variant of ShiftStep: the leaf holds the normalized class of the token.
ShiftStepNormalized(f, action) ==
  [f EXCEPT !.stack = Append(@, action[2]),
            !.symbol_stack = Append(@, ParseTree(f.normalized_tokens[f.index + 1], <<>>)),
            !.index = @ + 1]

\* Faulty variant of ShiftStep: the input position is not advanced.
ShiftStepStay(f, action) ==
  [f EXCEPT !.stack = Append(@, action[2]),
            !.symbol_stack = Append(@, ParseTree(OriginalToken(f), <<>>))]

\* Faulty variant of ShiftStep: the state is pushed but no leaf is pushed
\* on symbol_stack.
ShiftStepNoNode(f, action) ==
  [f EXCEPT !.stack = Append(@, action[2]),
            !.index = @ + 1]

ShiftStep(f, action) ==
  [f EXCEPT !.stack = Append(@, action[2]),
            !.symbol_stack = Append(@, ParseTree(OriginalToken(f), <<>>)),
            !.index = @ + 1]

\* Faulty variant of ReduceStep: the popped nodes become the children in the order
\* in which they are popped, last first.
ReduceStepReversed(table, g, f, action) ==
  LET rule_idx == action[2]
      lhs == g.rules[rule_idx + 1].lhs
      rhs == g.rules[rule_idx + 1].rhs
      ns == IF Len(rhs) < Len(f.stack) THEN Len(rhs) ELSE Len(f.stack)
      nc == IF Len(rhs) < Len(f.symbol_stack) THEN Len(rhs) ELSE Len(f.symbol_stack)
      stack1 == SubSeq(f.stack, 1, Len(f.stack) - ns)
      children == Reverse(SubSeq(f.symbol_stack, Len(f.symbol_stack) - nc + 1,
                                 Len(f.symbol_stack)))
      symbols1 == Append(SubSeq(f.symbol_stack, 1, Len(f.symbol_stack) - nc),
                         ParseTree(lhs, children))
      current_state == IF stack1 # <<>> THEN stack1[Len(stack1)] ELSE 0
      f1 == [f EXCEPT !.stack = stack1, !.symbol_stack = symbols1]
  IN  IF <<current_state, lhs>> \in DOMAIN table
        THEN [f1 EXCEPT !.stack = Append(@, table[<<current_state, lhs>>][2])]
        ELSE Return(f1, Failure(ErrorReport(f.index,
               <<"No GOTO entry for state and symbol", current_state, lhs>>)))

\* The reduce branch.  The pop loop runs len(rhs) times and skips a pop on
\* an empty stack, so it removes min(len(rhs), len(stack)) states and the
\* last min(len(rhs), len(symbol_stack)) nodes, which become the children
\* in their stack order.
ReduceStep(table, g, f, action) ==
  LET rule_idx == action[2]
      lhs == g.rules[rule_idx + 1].lhs
      rhs == g.rules[rule_idx + 1].rhs
      ns == IF Len(rhs) < Len(f.stack) THEN Len(rhs) ELSE Len(f.stack)
      nc == IF Len(rhs) < Len(f.symbol_stack) THEN Len(rhs) ELSE Len(f.symbol_stack)
      stack1 == SubSeq(f.stack, 1, Len(f.stack) - ns)
      children == SubSeq(f.symbol_stack, Len(f.symbol_stack) - nc + 1, Len(f.symbol_stack))
      node == ParseTree(lhs, children)
      symbols1 == Append(SubSeq(f.symbol_stack, 1, Len(f.symbol_stack) - nc), node)
      current_state == IF stack1 # <<>> THEN stack1[Len(stack1)] ELSE 0
      f1 == [f EXCEPT !.stack = stack1, !.symbol_stack = symbols1]
  IN  IF <<current_state, lhs>> \in DOMAIN table
        THEN LET goto_action == table[<<current_state, lhs>>]
             IN  IF goto_action[1] = "goto"
                   THEN [f1 EXCEPT !.stack = Append(@, goto_action[2])]
                   ELSE Return(f1, Failure(ErrorReport(f.index,
                          <<"Expected GOTO action for state and symbol", current_state, lhs>>)))
        ELSE Return(f1, Failure(ErrorReport(f.index,
               <<"No GOTO entry for state and symbol", current_state, lhs>>)))

\* Faulty variant of AcceptStep: the accept branch does not return.
AcceptStepNoReturn(f) == f

AcceptStep(f) ==
  IF f.symbol_stack # <<>> /\ f.symbol_stack[1].children # <<>>
    THEN Return(f, Success(f.symbol_stack[1].children[1]))
    ELSE Return(f, Success(IF f.symbol_stack # <<>> THEN f.symbol_stack[1]
                           ELSE ParseTree("Program", <<>>)))

\* One evaluation of the while condition followed by one loop body, or by
\* the return after the loop.
ParseLoopStep(table, g, f) ==
  IF ~(f.index < Len(f.normalized_tokens))
    THEN Return(f, Failure(ErrorReport(f.index, <<"Unexpected end of input">>)))
  ELSE IF f.stack = <<>> THEN Return(f, Raised)
  ELSE LET state == f.stack[Len(f.stack)]
           lookahead == f.normalized_tokens[f.index + 1]
       IN  IF <<state, lookahead>> \notin DOMAIN table
             THEN Return(f, Failure(ErrorReport(f.index,
                    <<"Unexpected token", OriginalToken(f), f.index,
                      Expected(table, g, state)>>)))
           ELSE LET action == table[<<state, lookahead>>]
                IN  IF action[1] = "shift" THEN ShiftStep(f, action)
                    ELSE IF action[1] = "reduce" THEN ReduceStep(table, g, f, action)
                    ELSE IF action[1] = "accept" THEN AcceptStep(f)
                    ELSE Return(f, Failure(ErrorReport(f.index, <<"Unknown action", action>>)))

----------------------------------------------------------------------------
(* Inputs of parse *)

\* Longest token list of the exhaustive part of the inputs.
MaxLen == 2

\* The tokens of the exhaustive part: one or two spellings of each kind
\* normalize_token distinguishes, the end marker, and a token whose part
\* before the colon is the end marker.
ShortTokens ==
  {"$", "$:x", "int", "id:x", "7", ";", "=", "(", ")", "{", "}", "foo", "Program"}

RECURSIVE SeqsUpTo(_, _)
SeqsUpTo(S, n) ==
  IF n = 0 THEN {<<>>}
  ELSE LET shorter == SeqsUpTo(S, n - 1)
       IN  shorter \cup {Append(w, t) : w \in {v \in shorter : Len(v) = n - 1}, t \in S}

ShortInputs == SeqsUpTo(ShortTokens, MaxLen)

\* Programs of the language, between them using every production: the
\* accepted scenarios of the specification, the test of parser.py's
\* __main__ block, and a short program for each remaining statement and
\* expression form.
ProgVarDecl == <<"int", "id:x", ";">>

ProgMain ==
  <<"int", "id:main", "(", ")", "{",
    "int", "id:x", ";", "return", "num:0", ";", "}">>

ProgAdd == <<"int", "id:x", "=", "num:5", "+", "num:0", ";">>

ProgTwoDecls ==
  <<"float", "id", ";", "bool", "identifier", "=", "-", "7", "==", "number", ";">>

ProgParams ==
  <<"void", "id:main", "(", "int", "id:x", ",", "float", "id", ")", "{", "}">>

ProgCall ==
  <<"int", "id", "(", ")", "{",
    "id:x", "=", "id", "(", "num", ",", "id:x", "*", "(", "7", ")", ")", ";",
    "return", "id:main", "(", ")", ";", "}">>

ProgIfElse ==
  <<"int", "id", "(", ")", "{",
    "if", "(", "id:x", ")", "{", "}", "else", "id", "=", "7", ";", "}">>

ProgWhileFor ==
  <<"int", "id", "(", ")", "{",
    "while", "(", "id", ")", "for", "(", "id", ";", "id", ";", "id", ")", "{", "}",
    "}">>

ProgIf ==
  <<"int", "id", "(", ")", "{", "if", "(", "id", ")", "{", "}", "}">>

ProgElseIf ==
  <<"int", "id", "(", ")", "{",
    "if", "(", "id", ")", "{", "}", "else", "if", "(", "id", ")", "{", "}", "}">>

ProgWhileIf ==
  <<"int", "id", "(", ")", "{",
    "while", "(", "id", ")", "if", "(", "id", ")", "{", "}", "}">>

ProgForIf ==
  <<"int", "id", "(", ")", "{",
    "for", "(", "id", ";", "id", ";", "id", ")", "if", "(", "id", ")", "{", "}", "}">>

Programs ==
  {<<>>, ProgVarDecl, ProgMain, ProgAdd, ProgTwoDecls, ProgParams, ProgCall,
   ProgIfElse, ProgWhileFor, ProgIf, ProgElseIf, ProgWhileIf, ProgForIf}

\* The tokens tried after a prefix of a program: a spelling of every
\* terminal class, the end marker, and tokens of no class.
NextTokens ==
  (terminals \ {"type", "id", "num"})
    \cup {"int", "void", "id:x", "identifier", "num:5", "7", "if:kw", "x:1", "foo", "Decl"}

\* Every prefix of a program, alone and followed by one more token.
PrefixInputs ==
  UNION {{SubSeq(b, 1, n) \o e : e \in {<<>>} \cup {<<t>> : t \in NextTokens}} :
           <<b, n>> \in {<<b, n>> \in Programs \X (0 .. 24) : n <= Len(b)}}

\* Statements `if ( e1 ) if ( e2 ) s1 else s2` in the block of a function,
\* for sample expressions and sample statements: a block and an assignment
\* (matched statements), an else-less if and a while over an else-less if
\* (unmatched statements).
ExprSamples == {<<"id:x">>, <<"id", "==", "7">>}

StmtSamples ==
  {<<"{", "}">>,
   <<"id:x", "=", "num:5", ";">>,
   <<"if", "(", "id", ")", "{", "}">>,
   <<"while", "(", "id", ")", "if", "(", "id", ")", "{", "}">>}

DanglingInput(e1, e2, s1, s2) ==
  <<"int", "id", "(", ")", "{">>
    \o <<"if", "(">> \o e1 \o <<")">>
    \o <<"if", "(">> \o e2 \o <<")">> \o s1 \o <<"else">> \o s2
    \o <<"}">>

DanglingInputs ==
  {DanglingInput(e[1], e[2], st[1], st[2]) :
     e \in ExprSamples \X ExprSamples, st \in StmtSamples \X StmtSamples}

Inputs == ShortInputs \cup PrefixInputs \cup DanglingInputs

----------------------------------------------------------------------------
(* One SLRParser object and the parse calls made on it *)

VARIABLES
  grammar,        \* self.grammar
  first_sets,     \* self.first_sets
  follow_sets,    \* self.follow_sets
  parsing_table,  \* self.parsing_table
  calls,          \* the locals of each call of parse: pc, tokens, normalized_tokens,
                  \* stack, symbol_stack, index, and the value returned
  builds,         \* the locals of each construction of the automaton and the
                  \* table that is followed step by step: pc, the iteration
                  \* order of its sets, states, transitions, queue, the loop
                  \* indices i, j of build_parsing_table, table and diagnostics
  sets            \* the locals of build_first_sets and build_follow_sets: pc,
                  \* changed, and the number r of the production the for loop
                  \* is at

vars == <<grammar, first_sets, follow_sets, parsing_table, calls, builds, sets>>

\* build_first_sets and build_follow_sets have returned.
SetsDone == [pc |-> "done", changed |-> FALSE, r |-> 1]

\* A call that has not started.
Idle ==
  [pc |-> "ready", tokens |-> <<>>, normalized_tokens |-> <<>>, stack |-> <<>>,
   symbol_stack |-> <<>>, index |-> 0, result |-> NoResult]

\* SLRParser.__init__ has run, under some iteration order of its sets.
Constructed ==
  /\ grammar = Grammar
  /\ first_sets = build_first_sets
  /\ follow_sets = build_follow_sets
  /\ \E k \in Orders : parsing_table = Built[k].parsing_table

Init ==
  /\ Constructed
  /\ calls = [c \in {1} |-> Idle]
  /\ builds = <<>>
  /\ sets = SetsDone

\* parse(tokens) is called.
ParseCall(c) ==
  /\ calls[c].pc = "ready"
  /\ \E tokens \in Inputs : calls' = [calls EXCEPT ![c] = StartParse(tokens)]
  /\ UNCHANGED <<grammar, first_sets, follow_sets, parsing_table, builds, sets>>

\* Faulty variant of ParseStep: the table entry the iteration looks up is removed
\* from the table.
ParseStepWrites(c) ==
  /\ calls[c].pc = "loop"
  /\ calls' = [calls EXCEPT ![c] = ParseLoopStep(parsing_table, grammar, @)]
  /\ parsing_table' =
       [key \in DOMAIN parsing_table \
                 {<<calls[c].stack[Len(calls[c].stack)],
                    calls[c].normalized_tokens[calls[c].index + 1]>>} |->
          parsing_table[key]]
  /\ UNCHANGED <<grammar, first_sets, follow_sets, builds, sets>>

\* One iteration of the loop of parse.
ParseStep(c) ==
  /\ calls[c].pc = "loop"
  /\ calls' = [calls EXCEPT ![c] = ParseLoopStep(parsing_table, grammar, @)]
  /\ UNCHANGED <<grammar, first_sets, follow_sets, parsing_table, builds, sets>>

Next ==
  \/ \E c \in DOMAIN calls : ParseCall(c)
  \/ \E c \in DOMAIN calls : ParseStep(c)

Spec == Init /\ [][Next]_vars

\* A call of parse that has started keeps running: the loop of parse has
\* no blocking operation.
FairSpec == Spec /\ WF_vars(\E c \in DOMAIN calls : ParseStep(c))

----------------------------------------------------------------------------
(* Two calls of parse on one parser, interleaved *)

SharedInputs ==
  {<<>>, <<"$">>, <<"int", "id:x">>, <<"int", "id:x", ";">>,
   <<"id:x", "=", "num:5", ";">>, ProgMain}

InitShared ==
  /\ Constructed
  /\ calls = [c \in {1, 2} |-> Idle]
  /\ builds = <<>>
  /\ sets = SetsDone

ParseCallShared(c) ==
  /\ calls[c].pc = "ready"
  /\ \E tokens \in SharedInputs : calls' = [calls EXCEPT ![c] = StartParse(tokens)]
  /\ UNCHANGED <<grammar, first_sets, follow_sets, parsing_table, builds, sets>>

NextShared ==
  \/ \E c \in DOMAIN calls : ParseCallShared(c)
  \/ \E c \in DOMAIN calls : ParseStep(c)

SpecShared == InitShared /\ [][NextShared]_vars

----------------------------------------------------------------------------
(* build_first_sets and build_follow_sets, one production at a time *)

\* Faulty variant of Grew: the flag `changed` is never set.
GrewNever(old, new) == FALSE

\* len(set) > old_size after the updates of one production.
Grew(old, new) == new # old

InitSets ==
  /\ grammar = Grammar
  /\ first_sets = InitFirst
  /\ follow_sets = <<>>
  /\ parsing_table = <<>>
  /\ calls = <<>>
  /\ builds = <<>>
  /\ sets = [pc |-> "first", changed |-> FALSE, r |-> 1]

\* The body of `for lhs, rhs in self.grammar.rules` of build_first_sets for
\* production r; after the last production the test of `while changed`,
\* which starts another pass or goes on to build_follow_sets.
FirstStep ==
  /\ sets.pc = "first"
  /\ IF sets.r <= NumRules
       THEN /\ first_sets' = FirstRuleStep(first_sets, sets.r)
            /\ sets' = [sets EXCEPT !.r = @ + 1,
                                    !.changed = @ \/ Grew(first_sets, first_sets')]
            /\ UNCHANGED follow_sets
       ELSE IF sets.changed
         THEN /\ sets' = [sets EXCEPT !.r = 1, !.changed = FALSE]
              /\ UNCHANGED <<first_sets, follow_sets>>
         ELSE /\ sets' = [pc |-> "follow", changed |-> FALSE, r |-> 1]
              /\ follow_sets' = InitFollow
              /\ UNCHANGED first_sets
  /\ UNCHANGED <<grammar, parsing_table, calls, builds>>

\* The same for build_follow_sets: the updates production r makes for the
\* nonterminals of its right-hand side, or the test of `while changed`.
FollowStep ==
  /\ sets.pc = "follow"
  /\ IF sets.r <= NumRules
       THEN /\ follow_sets' = FollowRuleStep(first_sets, follow_sets, sets.r, 1)
            /\ sets' = [sets EXCEPT !.r = @ + 1,
                                    !.changed = @ \/ Grew(follow_sets, follow_sets')]
       ELSE /\ sets' = IF sets.changed
                         THEN [sets EXCEPT !.r = 1, !.changed = FALSE]
                         ELSE SetsDone
            /\ UNCHANGED follow_sets
  /\ UNCHANGED <<grammar, first_sets, parsing_table, calls, builds>>

NextSets == FirstStep \/ FollowStep

SpecSets == InitSets /\ [][NextSets]_vars

\* The loops have no blocking operation.
FairSets == SpecSets /\ WF_vars(NextSets)

----------------------------------------------------------------------------
(* Two constructions from the same Grammar, one after the other, each      *)
(* under the iteration order its process gives to sets of strings          *)

NotBuilt ==
  [pc |-> "start", order |-> 0, states |-> <<>>, transitions |-> <<>>,
   queue |-> <<>>, i |-> 0, j |-> 1, table |-> <<>>, conflicts |-> {}]

InitBuild ==
  /\ grammar = Grammar
  /\ first_sets = build_first_sets
  /\ follow_sets = build_follow_sets
  /\ parsing_table = <<>>
  /\ calls = <<>>
  /\ builds = [b \in {1, 2} |-> NotBuilt]
  /\ sets = SetsDone

\* build_lr0_items is entered: the locals before `while queue`.
BuildStart(b) ==
  /\ builds[b].pc = "start"
  /\ b > 1 => builds[b - 1].pc = "done"
  /\ \E k \in Orders :
       builds' = [builds EXCEPT ![b] =
                    [@ EXCEPT !.pc = "lr0", !.order = k,
                              !.states = InitLr0.states,
                              !.transitions = InitLr0.transitions,
                              !.queue = InitLr0.queue]]
  /\ UNCHANGED <<grammar, first_sets, follow_sets, parsing_table, calls, sets>>

\* One test of `while queue` and, if the queue is not empty, one iteration;
\* otherwise build_parsing_table goes on to its loop over the states.
BuildLr0(b) ==
  /\ builds[b].pc = "lr0"
  /\ builds' = [builds EXCEPT ![b] =
       IF @.queue = <<>>
         THEN [@ EXCEPT !.pc = "table", !.i = 0, !.j = 1,
                        !.table = InitTable.table, !.conflicts = InitTable.conflicts]
         ELSE LET a == Lr0Step([states |-> @.states, transitions |-> @.transitions,
                                queue |-> @.queue], @.order)
              IN  [@ EXCEPT !.states = a.states, !.transitions = a.transitions,
                            !.queue = a.queue]]
  /\ UNCHANGED <<grammar, first_sets, follow_sets, parsing_table, calls, sets>>

\* One iteration of `for item in state` for state number i (item j of the
\* state in its iteration order) or, after its last item, the step to the
\* next state; after the last state, the loop that adds the GOTO entries.
BuildTable(b) ==
  /\ builds[b].pc = "table"
  /\ builds' = [builds EXCEPT ![b] =
       IF @.i < Len(@.states)
         THEN LET items == IterItems(@.states[@.i + 1], @.order)
              IN  IF @.j <= Len(items)
                    THEN LET t == TableItemStep([table |-> @.table, conflicts |-> @.conflicts],
                                                @.transitions, follow_sets, @.i,
                                                items[@.j], @.order)
                         IN  [@ EXCEPT !.table = t.table, !.conflicts = t.conflicts,
                                       !.j = @ + 1]
                    ELSE [@ EXCEPT !.i = @ + 1, !.j = 1]
         ELSE [@ EXCEPT !.pc = "done", !.table = AddGotos(@, builds[b].transitions)]]
  /\ UNCHANGED <<grammar, first_sets, follow_sets, parsing_table, calls, sets>>

NextBuild ==
  \/ \E b \in DOMAIN builds : BuildStart(b)
  \/ \E b \in DOMAIN builds : BuildLr0(b)
  \/ \E b \in DOMAIN builds : BuildTable(b)

SpecBuild == InitBuild /\ [][NextBuild]_vars

----------------------------------------------------------------------------
(* The language of the grammar, defined from the productions alone (no     *)
(* FIRST/FOLLOW set, automaton or table): what the claims mean by a token  *)
(* sequence derivable from the grammar and by a valid prefix.              *)

\* The positions k at which w may be cut so that the symbols `rest` derive
\* the part after k: all of w if nothing is left to derive, and before an
\* occurrence of the terminal `rest` starts with.
Splits(rest, w) ==
  {k \in 0 .. Len(w) :
     IF rest = <<>> THEN k = Len(w)
     ELSE IF rest[1] \in nonterminals THEN TRUE
     ELSE k < Len(w) /\ w[k + 1] = rest[1]}

\* gamma =>* w, for a sequence of grammar symbols gamma and a sequence of
\* terminals w.
RECURSIVE DerivesSeq(_, _)
DerivesSeq(gamma, w) ==
  IF gamma = <<>> THEN w = <<>>
  ELSE IF gamma[1] \notin nonterminals
    THEN w # <<>> /\ w[1] = gamma[1] /\ DerivesSeq(Tail(gamma), Tail(w))
  ELSE \E k \in Splits(Tail(gamma), w) :
         /\ \E r \in DOMAIN rules :
              rules[r].lhs = gamma[1] /\ DerivesSeq(rules[r].rhs, SubSeq(w, 1, k))
         /\ DerivesSeq(Tail(gamma), SubSeq(w, k + 1, Len(w)))

\* w is a sentence of the grammar.
Derivable(w) == DerivesSeq(<<"Program">>, w)

\* gamma =>* w v for some v: w is a prefix of a string gamma derives.
\* Every nonterminal of the grammar derives some string, so once w is used
\* up the rest of gamma can be completed.  `seen` holds the nonterminals
\* expanded since the last token of w was matched; expanding one of them
\* again (left recursion) can add no new way to match w.
RECURSIVE PrefixSeq(_, _, _)
PrefixSeq(gamma, w, seen) ==
  IF w = <<>> THEN TRUE
  ELSE IF gamma = <<>> THEN FALSE
  ELSE IF gamma[1] \notin nonterminals
    THEN w[1] = gamma[1] /\ PrefixSeq(Tail(gamma), Tail(w), {})
  ELSE \/ /\ gamma[1] \notin seen
          /\ \E r \in DOMAIN rules :
               rules[r].lhs = gamma[1]
               /\ PrefixSeq(rules[r].rhs, w, seen \cup {gamma[1]})
       \/ \E k \in Splits(Tail(gamma), w) \ {Len(w)} :
            /\ DerivesSeq(<<gamma[1]>>, SubSeq(w, 1, k))
            /\ PrefixSeq(Tail(gamma), SubSeq(w, k + 1, Len(w)),
                         IF k = 0 THEN seen ELSE {})

\* w is a prefix of some sentence of the grammar.
ValidPrefix(w) == PrefixSeq(<<"Program">>, w, {})

\* The terminal classes of a token list.
Normalized(tokens) == [j \in 1 .. Len(tokens) |-> normalize_token(tokens[j])]

\* The token leaves of a tree, left to right.  A childless node labelled
\* with a nonterminal is the node of an epsilon reduction, not a token.
RECURSIVE Yield(_)
RECURSIVE YieldSeq(_, _)
Yield(t) ==
  IF t.children = <<>>
    THEN IF t.symbol \in nonterminals THEN <<>> ELSE <<t.symbol>>
    ELSE YieldSeq(t.children, 1)

YieldSeq(ch, i) ==
  IF i > Len(ch) THEN <<>> ELSE Yield(ch[i]) \o YieldSeq(ch, i + 1)

Done(c) == calls[c].pc = "done"
Accepted(c) == Done(c) /\ calls[c].result.ok = TRUE
Rejected(c) == Done(c) /\ calls[c].result.ok = FALSE

----------------------------------------------------------------------------
(* Claims about SLRParser.parse, checked under Spec *)

\* C1: for every token list whose normalized classes form a sentence of the
\* grammar, parse returns success and the token leaves of the returned
\* tree, left to right, are the original (un-normalized) tokens in order.
RoundTrip ==
  \A c \in DOMAIN calls :
    (Done(c) /\ Derivable(Normalized(calls[c].tokens)))
      => (Accepted(c) /\ Yield(calls[c].result.tree) = calls[c].tokens)

\* A sentence of at least three tokens, some of which normalization
\* changes, has been parsed to the end.
RoundTripWitness ==
  \E c \in DOMAIN calls :
    /\ Done(c)
    /\ Len(calls[c].tokens) >= 3
    /\ Normalized(calls[c].tokens) # calls[c].tokens
    /\ Derivable(Normalized(calls[c].tokens))

\* C2: whenever parse returns success, the root of the returned tree is
\* labelled Program.
ReturnsProgramNode ==
  \A c \in DOMAIN calls : Accepted(c) => calls[c].result.tree.symbol = "Program"

\* C3: for every input made of a valid prefix followed by one token that
\* cannot continue it, parse fails and the reported position is the
\* zero-based index of that token.
ErrorAtInvalidToken ==
  \A c \in DOMAIN calls :
    (/\ Done(c)
     /\ calls[c].tokens # <<>>
     /\ ValidPrefix(Normalized(SubSeq(calls[c].tokens, 1, Len(calls[c].tokens) - 1)))
     /\ ~ValidPrefix(Normalized(calls[c].tokens)))
      => (/\ Rejected(c)
          /\ calls[c].result.error.position = Len(calls[c].tokens) - 1)

\* C4: if parse ends without Accept when every original token has been
\* consumed (the lookahead is the appended end marker), the error it
\* returns is "Unexpected end of input".
EndOfInputReported ==
  \A c \in DOMAIN calls :
    (Done(c) /\ ~Accepted(c) /\ calls[c].index = Len(calls[c].tokens))
      => (/\ Rejected(c)
          /\ calls[c].result.error.message = <<"Unexpected end of input">>)

\* C5, as stated: parse of the empty token list returns failure with an
\* "Unexpected end of input" error.
EmptyInputRejected ==
  \A c \in DOMAIN calls :
    (Done(c) /\ calls[c].tokens = <<>>)
      => (/\ Rejected(c)
          /\ calls[c].result.error.message = <<"Unexpected end of input">>)

\* C5, amended: parse of the empty token list returns success (the grammar
\* derives the empty program) with a tree that has no token leaf.
EmptyInputAccepted ==
  \A c \in DOMAIN calls :
    (Done(c) /\ calls[c].tokens = <<>>)
      => (Accepted(c) /\ Yield(calls[c].result.tree) = <<>>)

\* The parse of the empty token list has returned.
EmptyInputWitness ==
  \E c \in DOMAIN calls : Done(c) /\ calls[c].tokens = <<>>

----------------------------------------------------------------------------
(* The dangling else *)

\* Nodes of a tree in preorder.
RECURSIVE Preorder(_)
RECURSIVE PreorderSeq(_, _)
Preorder(t) == <<t>> \o PreorderSeq(t.children, 1)
PreorderSeq(ch, i) ==
  IF i > Len(ch) THEN <<>> ELSE Preorder(ch[i]) \o PreorderSeq(ch, i + 1)

\* The labels of the children of a node, left to right.
Labels(t) == [i \in 1 .. Len(t.children) |-> t.children[i].symbol]

\* The first statement of the first block: the node under the first Stmt.
FirstStatement(tree) ==
  LET nodes == Preorder(tree)
      i == CHOOSE k \in 1 .. Len(nodes) :
             /\ nodes[k].symbol = "Stmt"
             /\ \A h \in 1 .. k - 1 : nodes[h].symbol # "Stmt"
  IN  nodes[i].children[1]

\* The tree holds `if ( e1 ) <inner>` as an else-less if whose body is the
\* statement `if ( e2 ) s1 else s2`, labelled innerLabel, with the else
\* branch labelled elseLabel.
NearBinding(tree, e1, e2, s1, s2, innerLabel, elseLabel) ==
  LET outer == FirstStatement(tree)
  IN  /\ outer.symbol = "UnmatchedStmt"
      /\ Labels(outer) = <<"if", "(", "Expr", ")", "Stmt">>
      /\ Yield(outer.children[3]) = e1
      /\ Labels(outer.children[5]) = <<innerLabel>>
      /\ LET inner == outer.children[5].children[1]
         IN  /\ Labels(inner) =
                  <<"if", "(", "Expr", ")", "MatchedStmt", "else", elseLabel>>
             /\ Yield(inner.children[3]) = e2
             /\ Yield(inner.children[5]) = s1
             /\ Yield(inner.children[7]) = s2

IsMatched(s) == DerivesSeq(<<"MatchedStmt">>, Normalized(s))

\* C6, as stated: for every statement `if ( Expr ) if ( Expr ) Stmt else Stmt`
\* in a block, parse succeeds and the inner if-else is one MatchedStmt
\* (if ( Expr ) MatchedStmt else MatchedStmt) that is the body of the outer
\* else-less if.
DanglingElseMatched ==
  \A c \in DOMAIN calls :
    \A e \in ExprSamples \X ExprSamples, st \in StmtSamples \X StmtSamples :
      (Done(c) /\ calls[c].tokens = DanglingInput(e[1], e[2], st[1], st[2]))
        => (/\ Accepted(c)
            /\ NearBinding(calls[c].result.tree, e[1], e[2], st[1], st[2],
                           "MatchedStmt", "MatchedStmt"))

\* C6, amended: for `if ( Expr ) if ( Expr ) S1 else S2` in a block with S1 a
\* matched statement, parse succeeds and the else is attached to the inner
\* if, which is the body of the outer else-less if; the inner if-else is a
\* MatchedStmt when S2 is a matched statement and an UnmatchedStmt
\* (if ( Expr ) MatchedStmt else UnmatchedStmt) when S2 is not.
DanglingElseNearest ==
  \A c \in DOMAIN calls :
    \A e \in ExprSamples \X ExprSamples, st \in StmtSamples \X StmtSamples :
      (/\ Done(c)
       /\ calls[c].tokens = DanglingInput(e[1], e[2], st[1], st[2])
       /\ IsMatched(st[1]))
        => (/\ Accepted(c)
            /\ LET label == IF IsMatched(st[2]) THEN "MatchedStmt"
                                                 ELSE "UnmatchedStmt"
               IN  NearBinding(calls[c].result.tree, e[1], e[2], st[1], st[2],
                               label, label))

\* A nested if whose then-branch is matched and whose else-branch is an
\* else-less if has been parsed to the end.
DanglingElseWitness ==
  \E c \in DOMAIN calls :
    \E e \in ExprSamples \X ExprSamples, st \in StmtSamples \X StmtSamples :
      /\ Done(c)
      /\ calls[c].tokens = DanglingInput(e[1], e[2], st[1], st[2])
      /\ IsMatched(st[1])
      /\ ~IsMatched(st[2])

----------------------------------------------------------------------------
(* Shape of the nodes and termination *)

\* The child built for the right-hand-side symbol X: a node labelled X for
\* a nonterminal, a leaf holding a token of class X for a terminal.
ChildFits(child, X) ==
  IF X \in nonterminals
    THEN child.symbol = X
    ELSE child.children = <<>> /\ normalize_token(child.symbol) = X

\* The loop of call f is about to reduce.
Reducing(f) ==
  /\ f.pc = "loop"
  /\ f.index < Len(f.normalized_tokens)
  /\ f.stack # <<>>
  /\ <<f.stack[Len(f.stack)], f.normalized_tokens[f.index + 1]>> \in DOMAIN parsing_table
  /\ parsing_table[<<f.stack[Len(f.stack)], f.normalized_tokens[f.index + 1]>>][1] = "reduce"

ReducedRule(f) ==
  rules[parsing_table[<<f.stack[Len(f.stack)], f.normalized_tokens[f.index + 1]>>][2] + 1]

\* C7: every Reduce by a production A -> X1..Xn replaces the n topmost
\* nodes of the symbol stack by one node labelled A whose children are
\* exactly those n nodes, in left-to-right order of the right-hand side
\* (child i is the node for Xi); an epsilon reduction pushes a node with
\* no children.
ReduceBuildsNode ==
  [][\A c \in DOMAIN calls :
       (Reducing(calls[c]) /\ calls'[c] # calls[c])
         => LET rhs == ReducedRule(calls[c]).rhs
                n == Len(rhs)
                old == calls[c].symbol_stack
                new == calls'[c].symbol_stack
            IN  /\ Len(old) >= n
                /\ Len(new) = Len(old) - n + 1
                /\ SubSeq(new, 1, Len(old) - n) = SubSeq(old, 1, Len(old) - n)
                /\ new[Len(new)].symbol = ReducedRule(calls[c]).lhs
                /\ Len(new[Len(new)].children) = n
                /\ \A i \in 1 .. n :
                     /\ new[Len(new)].children[i] = old[Len(old) - n + i]
                     /\ ChildFits(new[Len(new)].children[i], rhs[i])]_vars

\* A node with at least two children that has a descendant built by an
\* epsilon reduction is on the symbol stack.
ReduceWitness ==
  \E c \in DOMAIN calls :
    \E i \in 1 .. Len(calls[c].symbol_stack) :
      LET nodes == Preorder(calls[c].symbol_stack[i])
      IN  /\ Len(calls[c].symbol_stack[i].children) >= 2
          /\ \E k \in 1 .. Len(nodes) :
               nodes[k].symbol \in nonterminals /\ nodes[k].children = <<>>

\* C8: every started call of parse ends, and ends with one result value:
\* success with a tree, or failure with an ErrorReport that has a position
\* in the input and a message; it never ends by an uncaught exception.
ParseTerminates ==
  (calls[1].pc = "loop")
    ~> (/\ calls[1].pc = "done"
        /\ \/ /\ DOMAIN calls[1].result = {"ok", "tree"}
              /\ calls[1].result.ok = TRUE
           \/ /\ DOMAIN calls[1].result = {"ok", "error"}
              /\ calls[1].result.ok = FALSE
              /\ calls[1].result.error.position \in 0 .. Len(calls[1].tokens)
              /\ calls[1].result.error.message # <<>>)

\* A call has returned an ErrorReport after shifting at least five tokens
\* and with at least three nodes still on the symbol stack.
ParseTerminatesWitness ==
  /\ calls[1].pc = "done"
  /\ DOMAIN calls[1].result = {"ok", "error"}
  /\ calls[1].index >= 5
  /\ Len(calls[1].symbol_stack) >= 3

----------------------------------------------------------------------------
(* Reproducibility of the construction; parse as a reader of the parser *)

\* C9: two constructions from the same Grammar end with the same state
\* numbering (the same list of states), the same transitions and the same
\* table.
BuildsIdentical ==
  (builds[1].pc = "done" /\ builds[2].pc = "done")
    => (/\ builds[1].states = builds[2].states
        /\ builds[1].transitions = builds[2].transitions
        /\ builds[1].table = builds[2].table)

\* parse(tokens) run to its end on its own.
RECURSIVE RunAlone(_, _, _)
RunAlone(table, g, f) ==
  IF f.pc = "done" THEN f ELSE RunAlone(table, g, ParseLoopStep(table, g, f))

\* C10: no step of a parse call changes the grammar, the FIRST/FOLLOW sets
\* or the table of its parser, and when two calls on one parser are
\* interleaved each returns the result it returns when run alone.
ParseReadsOnly ==
  [][/\ UNCHANGED <<grammar, first_sets, follow_sets, parsing_table>>
     /\ \A c \in DOMAIN calls :
          calls'[c].pc = "done"
            => calls'[c].result =
                 RunAlone(parsing_table, grammar, StartParse(calls'[c].tokens)).result]_vars

\* One call has returned a tree while the other, on different tokens, is in
\* the middle of its loop with nodes on its stack.
ParseReadsOnlyWitness ==
  /\ calls[1].pc = "done"
  /\ DOMAIN calls[1].result = {"ok", "tree"}
  /\ calls[2].pc = "loop"
  /\ calls[2].index >= 1
  /\ calls[2].symbol_stack # <<>>
  /\ calls[2].tokens # calls[1].tokens

----------------------------------------------------------------------------
(* The stacks of the driver *)

\* The state on top of the state stack once the reduction call f is about
\* to make has popped its right-hand side.
StateAfterPop(f) ==
  LET n == Len(ReducedRule(f).rhs)
  IN  IF n < Len(f.stack) THEN f.stack[Len(f.stack) - n] ELSE 0

\* C11: whenever parse is about to reduce by a production with left-hand
\* side A, the table holds a GOTO entry for (state on top of the stack after
\* popping, A), and no call returns a "No GOTO entry" or an "Expected GOTO
\* action" error.
GotoAlwaysPresent ==
  \A c \in DOMAIN calls :
    /\ Reducing(calls[c])
         => /\ Len(ReducedRule(calls[c]).rhs) < Len(calls[c].stack)
            /\ <<StateAfterPop(calls[c]), ReducedRule(calls[c]).lhs>>
                 \in DOMAIN parsing_table
            /\ parsing_table[<<StateAfterPop(calls[c]),
                               ReducedRule(calls[c]).lhs>>][1] = "goto"
    /\ Rejected(c)
         => calls[c].result.error.message[1]
              \notin {"No GOTO entry for state and symbol",
                      "Expected GOTO action for state and symbol"}

\* A call that has already reduced is about to reduce by a production with
\* at least two symbols on its right-hand side.
GotoWitness ==
  \E c \in DOMAIN calls :
    /\ Reducing(calls[c])
    /\ Len(ReducedRule(calls[c]).rhs) >= 2
    /\ \E i \in 1 .. Len(calls[c].symbol_stack) :
         calls[c].symbol_stack[i].symbol \in nonterminals

\* The iteration call c makes from this state to the next is a Shift.
Shifts(c) ==
  /\ calls[c].pc = "loop"
  /\ calls'[c].pc = "loop"
  /\ calls'[c] # calls[c]
  /\ ~Reducing(calls[c])

\* The iteration call c makes from this state to the next is a Reduce
\* that does not return.
Reduces(c) ==
  /\ Reducing(calls[c])
  /\ calls'[c].pc = "loop"
  /\ calls'[c] # calls[c]

\* C12, as stated: in every iteration of the parse loop that does not
\* return, the input position changes or the depth of the state stack
\* changes.
PositionOrDepthChanges ==
  [][\A c \in DOMAIN calls :
       (calls[c].pc = "loop" /\ calls'[c].pc = "loop" /\ calls'[c] # calls[c])
         => \/ calls'[c].index # calls[c].index
            \/ Len(calls'[c].stack) # Len(calls[c].stack)]_vars

\* C12, amended: every iteration that does not return changes the
\* configuration: a Shift advances the input position by one and deepens
\* the state stack by one; a Reduce by a production with n symbols on its
\* right-hand side keeps the input position, changes the depth of the state
\* stack by 1 - n and changes the state stack (for n = 1 the depth stays
\* and the state on top changes).
ConfigurationChanges ==
  [][\A c \in DOMAIN calls :
       /\ Shifts(c)
            => /\ calls'[c].index = calls[c].index + 1
               /\ Len(calls'[c].stack) = Len(calls[c].stack) + 1
       /\ Reduces(c)
            => /\ calls'[c].index = calls[c].index
               /\ Len(calls'[c].stack)
                    = Len(calls[c].stack) + 1 - Len(ReducedRule(calls[c]).rhs)
               /\ calls'[c].stack # calls[c].stack]_vars

\* A call is in its loop with a node on top of its symbol stack that was
\* built by a reduction of a production with one symbol, after a Shift.
ConfigurationWitness ==
  \E c \in DOMAIN calls :
    /\ calls[c].pc = "loop"
    /\ calls[c].index >= 1
    /\ calls[c].symbol_stack # <<>>
    /\ LET top == calls[c].symbol_stack[Len(calls[c].symbol_stack)]
       IN  top.symbol \in nonterminals /\ Len(top.children) = 1

\* Number of states above the initial state 0.
Depth(f) == Len(f.stack) - 1

\* C13, as stated: the depth of the state stack never exceeds the number
\* of input tokens.
DepthWithinInput ==
  \A c \in DOMAIN calls :
    calls[c].pc # "ready" => Depth(calls[c]) <= Len(calls[c].tokens)

\* C13, amended: the depth of the state stack never exceeds twice the
\* number of tokens shifted so far plus one, hence 2 * len(tokens) + 1.
DepthWithinTwiceShifted ==
  \A c \in DOMAIN calls :
    calls[c].pc # "ready"
      => /\ Depth(calls[c]) <= 2 * calls[c].index + 1
         /\ Depth(calls[c]) <= 2 * Len(calls[c].tokens) + 1

\* The state stack of a call is deeper than its input is long.
DepthWitness ==
  \E c \in DOMAIN calls :
    /\ calls[c].pc = "loop"
    /\ calls[c].tokens # <<>>
    /\ Depth(calls[c]) > Len(calls[c].tokens)

----------------------------------------------------------------------------
(* The table that build_parsing_table builds *)

\* A construction that has reached the end of build_parsing_table.
Finished(b) == builds[b].pc = "done"

\* The item <<rule_idx, dot_pos>> has its dot at the end.
Complete(item) == item[2] = Len(rules[item[1] + 1].rhs)

\* The actions the items of state number i of construction b call for on
\* terminal t: a Shift for an item with t after its dot, a Reduce for a
\* complete item whose left-hand side has t in its FOLLOW set, Accept for
\* the complete item of rule 0 on the end marker.
Proposals(b, i, t) ==
  LET state == builds[b].states[i + 1]
  IN  {<<"shift", builds[b].transitions[<<i, t>>]>> :
         item \in {it \in state :
                     /\ ~Complete(it)
                     /\ rules[it[1] + 1].rhs[it[2] + 1] = t
                     /\ <<i, t>> \in DOMAIN builds[b].transitions}}
      \cup {<<"reduce", item[1]>> :
              item \in {it \in state :
                          /\ Complete(it)
                          /\ it[1] # 0
                          /\ t \in follow_sets[rules[it[1] + 1].lhs]}}
      \cup {<<"accept">> :
              item \in {it \in state : Complete(it) /\ it[1] = 0 /\ t = "$"}}

\* C14, as stated: in the built table the only entry keyed by (state, $)
\* is Accept, in the state reached from state 0 on Program.
OnlyAcceptOnEndMarker ==
  \A b \in DOMAIN builds :
    Finished(b)
      => \A key \in DOMAIN builds[b].table :
           key[2] = "$"
             => /\ builds[b].table[key] = <<"accept">>
                /\ key[1] = builds[b].transitions[<<0, "Program">>]

\* C14, amended: in the built table no entry keyed by (state, $) is a
\* Shift; exactly one is Accept, in the state reached from state 0 on
\* Program; every other one is a Reduce by a production that is complete
\* in that state, and such entries exist: (0, $) is the Reduce by
\* DeclList -> epsilon.
EndMarkerEntries ==
  \A b \in DOMAIN builds :
    Finished(b)
      => /\ \A key \in DOMAIN builds[b].table :
              key[2] = "$"
                => IF key[1] = builds[b].transitions[<<0, "Program">>]
                     THEN builds[b].table[key] = <<"accept">>
                     ELSE /\ builds[b].table[key][1] = "reduce"
                          /\ <<builds[b].table[key][2],
                               Len(rules[builds[b].table[key][2] + 1].rhs)>>
                               \in builds[b].states[key[1] + 1]
         /\ <<builds[b].transitions[<<0, "Program">>], "$">> \in DOMAIN builds[b].table
         /\ \A i \in 0 .. Len(builds[b].states) - 1 :
              \A item \in builds[b].states[i + 1] :
                (/\ Complete(item)
                 /\ item[1] # 0
                 /\ "$" \in follow_sets[rules[item[1] + 1].lhs])
                  => /\ <<i, "$">> \in DOMAIN builds[b].table
                     /\ builds[b].table[<<i, "$">>] = <<"reduce", item[1]>>
         /\ <<0, "$">> \in DOMAIN builds[b].table
         /\ builds[b].table[<<0, "$">>] = <<"reduce", 3>>

\* A finished construction whose table has Accept and at least two Reduce
\* entries on the end marker.
EndMarkerWitness ==
  \E b \in DOMAIN builds :
    /\ Finished(b)
    /\ \E key \in DOMAIN builds[b].table : builds[b].table[key] = <<"accept">>
    /\ Cardinality({key \in DOMAIN builds[b].table :
                      key[2] = "$" /\ builds[b].table[key][1] = "reduce"}) >= 2

\* C15: a step of the table construction that enters a Shift in the row
\* of a state finds no Reduce or Accept in that row yet, and no step changes
\* an entry that the table already has.
ShiftsFirstAndKept ==
  [][\A b \in DOMAIN builds :
       (builds[b].pc = "table" /\ builds'[b].pc = "table")
         => /\ \A key \in DOMAIN builds'[b].table :
                 (/\ builds'[b].table[key][1] = "shift"
                  /\ key \notin DOMAIN builds[b].table)
                   => \A other \in DOMAIN builds[b].table :
                        other[1] = key[1] => builds[b].table[other][1] = "shift"
            /\ \A key \in DOMAIN builds[b].table :
                 /\ key \in DOMAIN builds'[b].table
                 /\ builds'[b].table[key] = builds[b].table[key]]_vars

\* The ACTION part of the table of construction b holds, for every state
\* and terminal, the one action the items of the state call for, and
\* nothing where they call for none; processing the items of the states in
\* any other order gives the same table.
ActionsAreProposals(b) ==
  /\ \A i \in 0 .. Len(builds[b].states) - 1, t \in terminals :
       /\ Cardinality(Proposals(b, i, t)) <= 1
       /\ IF Proposals(b, i, t) = {}
            THEN <<i, t>> \notin DOMAIN builds[b].table
            ELSE /\ <<i, t>> \in DOMAIN builds[b].table
                 /\ builds[b].table[<<i, t>>] \in Proposals(b, i, t)
  /\ \A k \in Orders :
       builds[b].table =
         build_parsing_table_from(
           [states |-> builds[b].states, transitions |-> builds[b].transitions],
           follow_sets, k).table

\* Construction b has ended and no later construction has started.
JustFinished(b) ==
  /\ Finished(b)
  /\ \A later \in DOMAIN builds : later > b => builds[later].pc = "start"

\* C16: the construction never records a conflict, and when it ends the
\* items of every state call for at most one action on every terminal, the
\* ACTION entries are exactly those actions, and they do not depend on the
\* order in which the items were processed.
NoConflicts ==
  \A b \in DOMAIN builds :
    /\ builds[b].conflicts = {}
    /\ JustFinished(b) => ActionsAreProposals(b)

\* A finished construction with a state whose items call for a Shift on
\* one terminal and for a Reduce on another.
NoConflictsWitness ==
  \E b \in DOMAIN builds :
    /\ Finished(b)
    /\ \E i \in 0 .. Len(builds[b].states) - 1 :
         /\ \E t \in terminals : \E a \in Proposals(b, i, t) : a[1] = "shift"
         /\ \E t \in terminals : \E a \in Proposals(b, i, t) : a[1] = "reduce"

----------------------------------------------------------------------------
(* FIRST and FOLLOW *)

\* X can derive the empty string, according to the FIRST sets fs.
Nullable(fs, X) == X \in nonterminals /\ "" \in fs[X]

\* FIRST of the sequence beta without epsilon: the FIRST sets of its
\* symbols up to and including the first one that is not nullable.
FirstOfSuffix(fs, beta) ==
  UNION {fs[beta[i]] \ {""} :
           i \in {h \in 1 .. Len(beta) : \A g \in 1 .. h - 1 : Nullable(fs, beta[g])}}

NullableSeq(fs, beta) == \A h \in 1 .. Len(beta) : Nullable(fs, beta[h])

\* The occurrences <<r, i>> of nonterminal B in the right-hand sides.
Occurrences(B) ==
  {ri \in (DOMAIN rules) \X (1 .. 9) :
     ri[2] <= Len(rules[ri[1]].rhs) /\ rules[ri[1]].rhs[ri[2]] = B}

Suffix(ri) == SubSeq(rules[ri[1]].rhs, ri[2] + 1, Len(rules[ri[1]].rhs))

\* The conditions on a family F of FOLLOW sets.
FollowConditions(fs, F) ==
  /\ "$" \in F[start_symbol]
  /\ \A B \in nonterminals : \A ri \in Occurrences(B) :
       /\ FirstOfSuffix(fs, Suffix(ri)) \subseteq F[B]
       /\ NullableSeq(fs, Suffix(ri)) => F[rules[ri[1]].lhs] \subseteq F[B]

\* What the conditions force into each set given the family F.
FollowForced(fs, F) ==
  [B \in nonterminals |->
     F[B] \cup (IF B = start_symbol THEN {"$"} ELSE {})
          \cup UNION {FirstOfSuffix(fs, Suffix(ri))
                        \cup (IF NullableSeq(fs, Suffix(ri))
                                THEN F[rules[ri[1]].lhs] ELSE {}) :
                      ri \in Occurrences(B)}]

\* The least family that meets the conditions: the limit of the families
\* forced from the empty sets.
RECURSIVE LeastFrom(_, _)
LeastFrom(fs, F) ==
  LET next == FollowForced(fs, F)
  IN  IF next = F THEN F ELSE LeastFrom(fs, next)

LeastFollow(fs) == LeastFrom(fs, [B \in nonterminals |-> {}])

\* Longest sequence of symbols get_first_of_sequence is compared on.
MaxSuffix == 3

\* Sequences of nullable nonterminals, a nonterminal that is not nullable
\* and terminals.
SampleSuffixes ==
  SeqsUpTo({"DeclList", "ParamRest", "StmtList", "Decl", "type", "}"}, MaxSuffix)

\* C17: when build_follow_sets has returned, the FOLLOW sets meet the
\* conditions (`$` follows the start symbol; for A -> alpha B beta,
\* FIRST(beta) without epsilon is in FOLLOW(B), and FOLLOW(A) is in FOLLOW(B)
\* if beta is empty or nullable) and are the least family that does, where
\* get_first_of_sequence gives FIRST(beta) over the whole of beta: it goes
\* on past every nullable symbol and stops at the first one that is not.
FollowIsLeast ==
  sets.pc = "done"
    => /\ FollowConditions(first_sets, follow_sets)
       /\ follow_sets = LeastFollow(first_sets)
       /\ \A beta \in SampleSuffixes :
            /\ get_first_of_sequence(first_sets, beta) \ {""}
                 = FirstOfSuffix(first_sets, beta)
            /\ "" \in get_first_of_sequence(first_sets, beta)
                 <=> NullableSeq(first_sets, beta)

\* build_follow_sets has returned, after more than one pass, with a
\* FOLLOW set that holds a terminal other than the end marker.
FollowWitness ==
  /\ sets.pc = "done"
  /\ \E B \in DOMAIN follow_sets : follow_sets[B] \ {"$"} # {}
  /\ \E B \in DOMAIN follow_sets : B # start_symbol /\ "$" \in follow_sets[B]

\* C18: from one step of build_first_sets and build_follow_sets to the
\* next no FIRST or FOLLOW set loses an element, both loops end, and when
\* they have ended one more pass over the productions changes no set.
SetsGrowToFixedPoint ==
  /\ [][/\ \A s \in DOMAIN first_sets :
             s \in DOMAIN first_sets' /\ first_sets[s] \subseteq first_sets'[s]
        /\ \A s \in DOMAIN follow_sets :
             s \in DOMAIN follow_sets' /\ follow_sets[s] \subseteq follow_sets'[s]]_vars
  /\ <>(sets.pc = "done")
  /\ [](sets.pc = "done"
          => /\ FirstPass(first_sets, 1, NumRules) = first_sets
             /\ FollowPass(first_sets, follow_sets, 1, NumRules) = follow_sets)

\* build_follow_sets is in a pass after its first one, so a pass has
\* changed a set and the loop has started over.
SetsWitness ==
  /\ sets.pc = "follow"
  /\ sets.r > 1
  /\ sets.changed = FALSE
  /\ \E B \in DOMAIN follow_sets : B # start_symbol /\ follow_sets[B] # {}

----------------------------------------------------------------------------
(* Claims about what parse accepts, checked under Spec *)

\* C19: parse returns success only when every token of the input has been
\* shifted: at the Accept step the input index equals len(tokens), also for
\* lists in which a `$` token occurs before the end.
AcceptsOnlyAtEnd ==
  \A c \in DOMAIN calls :
    Accepted(c) => calls[c].index = Len(calls[c].tokens)

\* C20: for every token list without a literal `$` token, parse returns
\* success only if the normalized token sequence is derivable from Program.
AcceptsOnlySentences ==
  \A c \in DOMAIN calls :
    (Accepted(c) /\ \A j \in 1 .. Len(calls[c].tokens) : calls[c].tokens[j] # "$")
      => Derivable(Normalized(calls[c].tokens))

----------------------------------------------------------------------------
(* Claims about the two stacks of parse, checked under Spec *)

Started(c) == calls[c].pc \in {"loop", "done"}

\* The reduce the next iteration of call c takes, if it takes one.
NextReduce(c) ==
  LET f == calls[c]
      key == <<f.stack[Len(f.stack)], f.normalized_tokens[f.index + 1]>>
  IN  IF /\ f.pc = "loop"
         /\ f.index < Len(f.normalized_tokens)
         /\ f.stack # <<>>
         /\ key \in DOMAIN parsing_table
         /\ parsing_table[key][1] = "reduce"
        THEN {parsing_table[key][2]}
        ELSE {}

\* C21: throughout every parse the state stack is not empty, its bottom
\* element is state 0 and len(stack) = len(symbol_stack) + 1 before and
\* after every iteration; a reduce finds at least len(rhs) nodes on
\* symbol_stack and more than len(rhs) states on stack, so no pop is
\* skipped and the state under the popped ones is read from the stack; and
\* when parse accepts, symbol_stack holds exactly one node.
StacksParallel ==
  \A c \in DOMAIN calls :
    Started(c)
      => /\ calls[c].stack # <<>>
         /\ calls[c].stack[1] = 0
         /\ Len(calls[c].stack) = Len(calls[c].symbol_stack) + 1
         /\ \A rule_idx \in NextReduce(c) :
              /\ Len(grammar.rules[rule_idx + 1].rhs) <= Len(calls[c].symbol_stack)
              /\ Len(grammar.rules[rule_idx + 1].rhs) < Len(calls[c].stack)
         /\ Accepted(c) => Len(calls[c].symbol_stack) = 1

\* A call is about to reduce by a rule with three or more symbols on its
\* right-hand side, with states left under the ones it pops.
StacksWitness ==
  \E c \in DOMAIN calls :
    \E rule_idx \in NextReduce(c) :
      /\ Len(grammar.rules[rule_idx + 1].rhs) >= 3
      /\ Len(calls[c].stack) > Len(grammar.rules[rule_idx + 1].rhs) + 1

====
